---- MODULE Spec2Model ----
(***************************************************************************)
(* A model of the AdvancedAutocomplete component (src/src/AutocompletePro  *)
(* .tsx): the matching/ranking engine (fuzzyMatch, levenshteinDistance,    *)
(* filterOptions), the debounced and possibly asynchronous search          *)
(* (handleInputChange, performSearch), selection (handleSelect,            *)
(* handleRemoveTag) and keyboard navigation (handleKeyDown).               *)
(*                                                                         *)
(* A JavaScript string is a sequence of one-character strings.  Every      *)
(* handler runs to completion (one thread, React state updates of one      *)
(* handler are applied together), so every handler is one action; the      *)
(* debounce timer and the promise returned by onSearch are the only things *)
(* that complete later, and each has an action of its own.                 *)
(***************************************************************************)
EXTENDS Integers, Sequences, FiniteSets, Bags, TLC

\* ------------------------------------------------------------------------
\* Bounds of the model (not program constants)

\* onSearch promises that may be unresolved at the same time
MaxInflight == 2
\* query-change events that may arrive while a debounce timer is pending
MaxBurst == 2

\* ------------------------------------------------------------------------
\* Program constants

\* slice(0, 3) of the recent and of the trending candidates
RecentSlice == 3
TrendingSlice == 3
\* slice(0, 4) of the popularity-sorted candidates
PopularSlice == 4
\* slice(0, 5) of recentSearches
RecentCapacity == 5

\* ------------------------------------------------------------------------
\* Strings

Min(a, b) == IF a < b THEN a ELSE b
Max(a, b) == IF a > b THEN a ELSE b

LowerChar(c) ==
  CASE c = "A" -> "a" [] c = "B" -> "b" [] c = "M" -> "m" [] c = "P" -> "p"
    [] OTHER -> c
toLowerCase(s) == [i \in 1..Len(s) |-> LowerChar(s[i])]

\* String.prototype.includes: q occurs in text as a contiguous substring
includes(text, q) ==
  \E i \in 0..(Len(text) - Len(q)) : SubSeq(text, i + 1, i + Len(q)) = q

startsWith(text, q) ==
  Len(q) <= Len(text) /\ SubSeq(text, 1, Len(q)) = q

IsSpace(c) == c = " "

\* text.split(/\s+/): the pieces between maximal runs of whitespace; a
\* leading or trailing run leaves an empty first or last piece, and the
\* empty string splits into one empty piece.
splitWs(text) ==
  LET sp[i \in 0..Len(text)] ==
        \* <<pieces closed so far, the piece being read>> after i characters
        IF i = 0 THEN <<  <<>>, <<>>  >>
        ELSE LET prev == sp[i - 1]
                 c == text[i]
             IN IF IsSpace(c)
                THEN IF i > 1 /\ IsSpace(text[i - 1])
                     THEN prev
                     ELSE << Append(prev[1], prev[2]), <<>> >>
                ELSE << prev[1], Append(prev[2], c) >>
  IN Append(sp[Len(text)][1], sp[Len(text)][2])

\* text.split(' '): the pieces between single spaces
splitSpace(text) ==
  LET sp[i \in 0..Len(text)] ==
        IF i = 0 THEN <<  <<>>, <<>>  >>
        ELSE LET prev == sp[i - 1]
                 c == text[i]
             IN IF c = " "
                THEN << Append(prev[1], prev[2]), <<>> >>
                ELSE << prev[1], Append(prev[2], c) >>
  IN Append(sp[Len(text)][1], sp[Len(text)][2])

\* parts.join(' ')
joinSpace(parts) ==
  LET j[i \in 0..Len(parts)] ==
        IF i = 0 THEN <<>>
        ELSE IF i = 1 THEN parts[1]
        ELSE j[i - 1] \o <<" ">> \o parts[i]
  IN j[Len(parts)]

\* ------------------------------------------------------------------------
\* levenshteinDistance and fuzzyMatch

\* a distance that charges a substitution as a deletion and an insertion
levenshteinDistanceNoSubstitution(a, b) ==
  LET matrix[j \in 0..Len(b), i \in 0..Len(a)] ==
        IF j = 0 THEN i
        ELSE IF i = 0 THEN j
        ELSE LET cost == IF a[i] = b[j] THEN 0 ELSE 2
             IN Min(Min(matrix[j, i - 1] + 1, matrix[j - 1, i] + 1),
                    matrix[j - 1, i - 1] + cost)
  IN matrix[Len(b), Len(a)]

levenshteinDistance(a, b) ==
  LET matrix[j \in 0..Len(b), i \in 0..Len(a)] ==
        IF j = 0 THEN i
        ELSE IF i = 0 THEN j
        ELSE LET cost == IF a[i] = b[j] THEN 0 ELSE 1
             IN Min(Min(matrix[j, i - 1] + 1, matrix[j - 1, i] + 1),
                    matrix[j - 1, i - 1] + cost)
  IN matrix[Len(b), Len(a)]

\* 1 - distance / length >= threshold, the threshold in hundredths.  A zero
\* length makes the quotient NaN, and NaN >= threshold is false.
SimilarityAtLeast(distance, length, threshold) ==
  length > 0 /\ (length - distance) * 100 >= threshold * length

\* The divisors of the divisions fuzzyMatch gets to: none when the substring
\* test returns at once, else maxLength for every word and queryLower.length
\* for every word with a window (all the words, also those a return in the
\* loop keeps it from).
fuzzyMatchDivisors(query, text) ==
  LET queryLower == toLowerCase(query)
      textLower == toLowerCase(text)
      words == splitWs(textLower)
  IN IF includes(textLower, queryLower)
     THEN {}
     ELSE {Max(Len(queryLower), Len(words[k])) : k \in 1..Len(words)}
            \cup {Len(queryLower) : k \in {k \in 1..Len(words) :
                                             Len(words[k]) >= Len(queryLower)}}

\* fuzzyMatch without the substring test of its first line
fuzzyMatchNoSubstring(query, text, threshold) ==
  LET queryLower == toLowerCase(query)
      textLower == toLowerCase(text)
      words == splitWs(textLower)
      WordMatches(word) ==
        \/ SimilarityAtLeast(levenshteinDistance(queryLower, word),
                             Max(Len(queryLower), Len(word)), threshold)
        \/ /\ Len(word) >= Len(queryLower)
           /\ \E i \in 0..(Len(word) - Len(queryLower)) :
                SimilarityAtLeast(
                  levenshteinDistance(queryLower,
                                      SubSeq(word, i + 1, i + Len(queryLower))),
                  Len(queryLower), threshold)
  IN \E k \in 1..Len(words) : WordMatches(words[k])

fuzzyMatch(query, text, threshold) ==
  LET queryLower == toLowerCase(query)
      textLower == toLowerCase(text)
      words == splitWs(textLower)
      WordMatches(word) ==
        \/ SimilarityAtLeast(levenshteinDistance(queryLower, word),
                             Max(Len(queryLower), Len(word)), threshold)
        \/ /\ Len(word) >= Len(queryLower)
           /\ \E i \in 0..(Len(word) - Len(queryLower)) :
                SimilarityAtLeast(
                  levenshteinDistance(queryLower,
                                      SubSeq(word, i + 1, i + Len(queryLower))),
                  Len(queryLower), threshold)
  IN \/ includes(textLower, queryLower)
     \/ \E k \in 1..Len(words) : WordMatches(words[k])

\* ------------------------------------------------------------------------
\* Arrays

\* arr.slice(0, end)
slice0(arr, end) ==
  LET e == IF end < 0 THEN Max(Len(arr) + end, 0) ELSE Min(end, Len(arr))
  IN SubSeq(arr, 1, e)

\* the elements of arr
elements(arr) == {arr[i] : i \in 1..Len(arr)}

\* arr.filter(keep), keep a function of the element
filter(arr, keep) == SelectSeq(arr, LAMBDA x : keep[x])

\* arr.findIndex(o => o.id === id), counted from 1; 0 when there is none
findIndexById(arr, id) ==
  IF \E i \in 1..Len(arr) : arr[i].id = id
  THEN CHOOSE i \in 1..Len(arr) :
         arr[i].id = id /\ \A k \in 1..(i - 1) : arr[k].id # id
  ELSE 0

\* a deduplication that keeps the last occurrence of an id
dedupeByIdKeepLast(arr) ==
  LET d[i \in 0..Len(arr)] ==
        IF i = 0 THEN <<>>
        ELSE IF \A j \in (i + 1)..Len(arr) : arr[j].id # arr[i].id
             THEN Append(d[i - 1], arr[i])
             ELSE d[i - 1]
  IN d[Len(arr)]

\* arr.filter((opt, index, arr) => arr.findIndex(o => o.id === opt.id) === index)
dedupeById(arr) ==
  LET d[i \in 0..Len(arr)] ==
        IF i = 0 THEN <<>>
        ELSE IF findIndexById(arr, arr[i].id) = i
             THEN Append(d[i - 1], arr[i])
             ELSE d[i - 1]
  IN d[Len(arr)]

\* Array.prototype.sort with a comparator (a function of the pair of
\* elements): a stable sort (ECMAScript 2019), each element placed before
\* the first already placed element it compares less than.
sort(arr, cmp) ==
  LET Cmp(a, b) == cmp[<<a, b>>]
      insert(sorted, x) ==
        LET at == IF \E i \in 1..Len(sorted) : Cmp(x, sorted[i]) < 0
                  THEN CHOOSE i \in 1..Len(sorted) :
                         /\ Cmp(x, sorted[i]) < 0
                         /\ \A k \in 1..(i - 1) : ~(Cmp(x, sorted[k]) < 0)
                  ELSE Len(sorted) + 1
        IN SubSeq(sorted, 1, at - 1) \o <<x>> \o SubSeq(sorted, at, Len(sorted))
      s[k \in 0..Len(arr)] ==
        IF k = 0 THEN <<>> ELSE insert(s[k - 1], arr[k])
  IN s[Len(arr)]

\* ------------------------------------------------------------------------
\* Candidates (AutocompleteOption) and the search configuration

\* The value of a field the candidate does not have.  No string is equal to
\* it: the characters of a string are one-character strings.
undefined == <<"undefined">>

\* v || ''
orEmpty(v) == IF v = undefined THEN <<>> ELSE v

\* v || 'Other'
orOther(v) == IF v = undefined \/ v = <<>> THEN <<"O", "t", "h", "e", "r">> ELSE v

\* An absent description is the empty string of option[field] || '', an
\* absent popularity the 0 of popularity || 0, an absent flag is false; the
\* candidate has no category.
Option(id, label, val, popularity, recent, trending) ==
  [id |-> id, label |-> label, value |-> val, description |-> <<>>,
   category |-> undefined,
   popularity |-> popularity, recent |-> recent, trending |-> trending]

DEFAULT_SEARCH_CONFIG ==
  [algorithm |-> "hybrid", fuzzyThreshold |-> 50, minQueryLength |-> 1,
   maxResults |-> 10, caseSensitive |-> FALSE]

\* the default of the filterBy prop
filterBy == <<"label", "value", "description">>

VARIABLES
  \* props
  options,            \* the caller's array of candidates (sorted in place)
  value,              \* the selection the parent passes back in
  multiple,
  onSearch,           \* TRUE when the onSearch prop is given
  config,             \* DEFAULT_SEARCH_CONFIG merged with searchConfig
  showRecent,
  showTrending,
  groupBy,            \* "" when the groupBy prop is absent, else the field
                      \* of the candidate the given function returns
  \* component state
  mounted,            \* the initial-load effect has run
  unmounted,          \* the component has been torn down
  query,
  isOpen,
  highlightedIndex,   \* counted from 0 as in the code, -1 for none
  filteredOptions,
  recentSearches,
  isLoading,
  debounceRef,        \* id of the timer set last, 0 before the first
  \* the environment
  texts,              \* the texts the user of this run leaves in the input
  timers,             \* pending setTimeout callbacks: [id, q]
  inflight,           \* bag of the queries of the unresolved onSearch promises
  \* observation
  calls,              \* the calls the last step made to onChange, onSearch, console.error
  issued,             \* the query of the latest performSearch
  full,               \* the list the latest search cut down to maxResults
  everSelected,       \* the ids handleSelect has been called with
  burst,              \* query changes since the timer was last idle
  sel,                \* in multi mode, the last handleSelect or handleRemoveTag:
                      \* its argument (id), the selection before it (before),
                      \* whether it repeats the handleSelect before it (rep),
                      \* and then the selection before that one (orig)
  \* the matcher called on its own
  probe               \* the arguments of a call of fuzzyMatch or of the
                      \* predicate of an algorithm, the function called
                      \* (fn, "" before the call) and what it returned

props == <<multiple, onSearch, config, showRecent, showTrending, groupBy,
           texts>>
vars == <<options, value, multiple, onSearch, config, showRecent, showTrending,
          groupBy, texts,
          mounted, unmounted, query, isOpen, highlightedIndex, filteredOptions,
          recentSearches, isLoading, debounceRef, timers, inflight,
          calls, issued, full, everSelected, burst, sel, probe>>

\* selectedValues: the selection as an array
selectedValues == value

\* ------------------------------------------------------------------------
\* filterOptions

searchText(option) ==
  joinSpace([k \in 1..Len(filterBy) |-> orEmpty(option[filterBy[k]])])

\* the switch on config.algorithm, for the searchText of one candidate
matchesText(cfg, searchQuery, text) ==
  CASE cfg.algorithm = "exact" ->
         IF cfg.caseSensitive
         THEN includes(text, searchQuery)
         ELSE includes(toLowerCase(text), toLowerCase(searchQuery))
    [] cfg.algorithm = "fuzzy" ->
         fuzzyMatch(searchQuery, text, cfg.fuzzyThreshold)
    [] cfg.algorithm = "semantic" ->
         \/ includes(toLowerCase(text), toLowerCase(searchQuery))
         \/ LET ws == splitSpace(toLowerCase(searchQuery))
            IN \E k \in 1..Len(ws) : includes(toLowerCase(text), ws[k])
    [] OTHER ->
         \/ includes(toLowerCase(text), toLowerCase(searchQuery))
         \/ fuzzyMatch(searchQuery, text, cfg.fuzzyThreshold)

\* the predicate of availableOptions.filter(...) for config.algorithm
matchesOption(searchQuery, option) ==
  matchesText(config, searchQuery, searchText(option))

\* (a, b) => (b.popularity || 0) - (a.popularity || 0) over the elements of arr
byPopularity(arr) ==
  [p \in elements(arr) \X elements(arr) |-> p[2].popularity - p[1].popularity]

\* a comparator that ranks by popularity alone
byRankNoPrefix(searchQuery, arr) ==
  [p \in elements(arr) \X elements(arr) |-> p[2].popularity - p[1].popularity]

\* the comparator of the ranking sort
byRank(searchQuery, arr) ==
  [p \in elements(arr) \X elements(arr) |->
  LET a == p[1]
      b == p[2]
      aExact == startsWith(toLowerCase(a.label), toLowerCase(searchQuery))
      bExact == startsWith(toLowerCase(b.label), toLowerCase(searchQuery))
  IN IF aExact /\ ~bExact THEN -1
     ELSE IF ~aExact /\ bExact THEN 1
     ELSE b.popularity - a.popularity]

\* the branch taken for a query that is empty or shorter than minQueryLength
isFallback(searchQuery) ==
  searchQuery = <<>> \/ Len(searchQuery) < config.minQueryLength

\* [...recent, ...trending, ...popular] with its duplicates removed
fallbackList(availableOptions) ==
  LET isRecent == [opt \in elements(availableOptions) |-> opt.recent]
      isTrending == [opt \in elements(availableOptions) |-> opt.trending]
      recent == IF showRecent
                THEN slice0(filter(availableOptions, isRecent), RecentSlice)
                ELSE <<>>
      trending == IF showTrending
                  THEN slice0(filter(availableOptions, isTrending), TrendingSlice)
                  ELSE <<>>
      popular == slice0(sort(availableOptions, byPopularity(availableOptions)), PopularSlice)
  IN dedupeById(recent \o trending \o popular)

\* the candidates availableOptions.filter(...) keeps
matched(searchQuery, availableOptions) ==
  LET keep == [option \in elements(availableOptions) |->
                 matchesOption(searchQuery, option)]
  IN filter(availableOptions, keep)

\* filtered.sort(...)
rankedList(searchQuery, availableOptions) ==
  LET filtered == matched(searchQuery, availableOptions)
  IN sort(filtered, byRank(searchQuery, filtered))

\* filterOptions throws a TypeError: the ranking comparator reads
\* a.label.toLowerCase() and b.label.toLowerCase(), and a sort of two or more
\* elements hands every element to the comparator at least once
filterOptionsThrows(searchQuery, availableOptions) ==
  /\ ~isFallback(searchQuery)
  /\ LET filtered == matched(searchQuery, availableOptions)
     IN /\ Len(filtered) >= 2
        /\ \E i \in 1..Len(filtered) : filtered[i].label = undefined

\* the list the final .slice(0, config.maxResults) is taken of
fullList(searchQuery, availableOptions) ==
  IF isFallback(searchQuery)
  THEN fallbackList(availableOptions)
  ELSE rankedList(searchQuery, availableOptions)

\* a slice that keeps one candidate too many
capResultsOneMore(list) == slice0(list, config.maxResults + 1)

\* .slice(0, config.maxResults)
capResults(list) == slice0(list, config.maxResults)

\* the value filterOptions returns
filterOptions(searchQuery, availableOptions) ==
  capResults(fullList(searchQuery, availableOptions))

\* availableOptions after the call: the fallback branch sorts it in place
afterFilterOptions(searchQuery, availableOptions) ==
  IF isFallback(searchQuery)
  THEN sort(availableOptions, byPopularity(availableOptions))
  ELSE availableOptions

\* ------------------------------------------------------------------------
\* What the model observes of a step

NoCalls == [onChange |-> <<>>, onSearch |-> <<>>, error |-> 0]

\* sel after handler op has run on id; single selection has no toggles to observe
observed(op, id) ==
  IF multiple
  THEN LET rep == op = "handleSelect" /\ sel.op = op /\ sel.id = id
       IN [op |-> op, id |-> id, before |-> value, rep |-> rep,
           orig |-> IF rep THEN sel.before ELSE value]
  ELSE sel

hasId(arr, id) == \E i \in 1..Len(arr) : arr[i].id = id

withoutId(arr, id) ==
  LET keep == [v \in elements(arr) |-> v.id # id]
  IN filter(arr, keep)

\* ------------------------------------------------------------------------
\* performSearch, and the two ways the promise of onSearch settles

\* isAsync without its test of the query's length
isAsyncAnyLength(searchQuery) == onSearch

\* the branch of performSearch that awaits onSearch
isAsync(searchQuery) ==
  onSearch /\ Len(searchQuery) >= config.minQueryLength

\* The state after a setter of useState is called with next: React drops
\* the update of a component that is no longer mounted.
setState(current, next) == IF unmounted THEN current ELSE next

\* performSearch up to its await, or to its end when nothing is awaited.  An
\* exception of filterOptions outside the try block rejects the promise
\* performSearch returns, which nobody awaits: no state is set.
performSearch(searchQuery) ==
  /\ issued' = searchQuery
  /\ IF isAsync(searchQuery)
     THEN /\ BagCardinality(inflight) < MaxInflight
          /\ isLoading' = setState(isLoading, TRUE)
          /\ inflight' = inflight (+) SetToBag({searchQuery})
          /\ calls' = [NoCalls EXCEPT !.onSearch = <<searchQuery>>]
          /\ UNCHANGED <<filteredOptions, options, full>>
     ELSE /\ IF filterOptionsThrows(searchQuery, options)
             THEN UNCHANGED <<filteredOptions, full>>
             ELSE /\ filteredOptions' =
                       setState(filteredOptions,
                                filterOptions(searchQuery, options))
                  /\ full' = fullList(searchQuery, options)
          /\ options' = afterFilterOptions(searchQuery, options)
          /\ calls' = NoCalls
          /\ UNCHANGED <<isLoading, inflight>>

\* the initial-load effect
Mount ==
  /\ ~mounted
  /\ mounted' = TRUE
  /\ performSearch(<<>>)
  /\ UNCHANGED <<value, props, probe, unmounted, query, isOpen, highlightedIndex,
                 recentSearches, debounceRef, timers, everSelected, burst, sel>>

\* the promise onSearch(searchQuery) returned is fulfilled with results:
\* performSearch goes on after its await, through its finally block
FetchResolve(searchQuery, results) ==
  /\ BagIn(searchQuery, inflight)
  /\ inflight' = inflight (-) SetToBag({searchQuery})
  /\ IF filterOptionsThrows(searchQuery, results)
     THEN \* the catch block
          /\ filteredOptions' = setState(filteredOptions, <<>>)
          /\ full' = <<>>
          /\ calls' = [NoCalls EXCEPT !.error = 1]
     ELSE /\ filteredOptions' =
               setState(filteredOptions, filterOptions(searchQuery, results))
          /\ full' = fullList(searchQuery, results)
          /\ calls' = NoCalls
  /\ isLoading' = setState(isLoading, FALSE)
  /\ UNCHANGED <<options, value, props, probe, mounted, unmounted, query, isOpen,
                 highlightedIndex, recentSearches, debounceRef, timers,
                 issued, everSelected, burst, sel>>

\* FetchReject without the finally block
FetchRejectNoFinally(searchQuery) ==
  /\ BagIn(searchQuery, inflight)
  /\ inflight' = inflight (-) SetToBag({searchQuery})
  /\ filteredOptions' = <<>>
  /\ full' = <<>>
  /\ calls' = [NoCalls EXCEPT !.error = 1]
  /\ UNCHANGED <<options, value, props, probe, mounted, unmounted, query, isOpen,
                 highlightedIndex, recentSearches, isLoading, debounceRef,
                 timers, issued, everSelected, burst, sel>>

\* the promise is rejected: the catch block, then the finally block
FetchReject(searchQuery) ==
  /\ BagIn(searchQuery, inflight)
  /\ inflight' = inflight (-) SetToBag({searchQuery})
  /\ filteredOptions' = setState(filteredOptions, <<>>)
  /\ full' = <<>>
  /\ isLoading' = setState(isLoading, FALSE)
  /\ calls' = [NoCalls EXCEPT !.error = 1]
  /\ UNCHANGED <<options, value, props, probe, mounted, unmounted, query, isOpen,
                 highlightedIndex, recentSearches, debounceRef, timers,
                 issued, everSelected, burst, sel>>

\* The component is torn down.  The cleanups of its effects run: the only
\* one there is removes the mousedown listener of handleClickOutside.
\* Nothing clears the timer debounceRef names, and nothing tells a pending
\* performSearch that the component is gone.
Unmount ==
  /\ mounted /\ ~unmounted
  /\ unmounted' = TRUE
  /\ calls' = NoCalls
  /\ UNCHANGED <<options, value, props, probe, mounted, query, isOpen,
                 highlightedIndex, filteredOptions, recentSearches, isLoading,
                 debounceRef, timers, inflight, issued, full, everSelected,
                 burst, sel>>

\* ------------------------------------------------------------------------
\* handleInputChange and the debounce timer

\* a clearTimeout that cancels nothing
clearTimeoutNothing(pending, id) == pending

\* clearTimeout(debounceRef.current)
clearTimeout(pending, id) == {t \in pending : t.id # id}

\* the id of a new timer: one no pending timer has
newTimerId(pending) ==
  CHOOSE n \in 1..(Cardinality(pending) + 1) :
    /\ \A t \in pending : t.id # n
    /\ \A k \in 1..(n - 1) : \E t \in pending : t.id = k

handleInputChange(newQuery) ==
  /\ mounted /\ ~unmounted
  /\ newQuery \in texts
  /\ newQuery # query
  /\ timers # {} => burst.n < MaxBurst
  /\ query' = newQuery
  /\ highlightedIndex' = -1
  /\ LET left == clearTimeout(timers, debounceRef)
         id == newTimerId(left)
     IN /\ timers' = left \cup {[id |-> id, q |-> newQuery]}
        /\ debounceRef' = id
  /\ burst' = IF timers # {}
              THEN [burst EXCEPT !.n = @ + 1, !.last = newQuery]
              ELSE [n |-> 1, last |-> newQuery, fired |-> 0]
  /\ calls' = NoCalls
  /\ UNCHANGED <<options, value, props, probe, mounted, unmounted, isOpen, filteredOptions,
                 recentSearches, isLoading, inflight, issued, full,
                 everSelected, sel>>

\* the callback of setTimeout runs
TimerFire(t) ==
  /\ t \in timers
  /\ timers' = timers \ {t}
  /\ performSearch(t.q)
  /\ burst' = [burst EXCEPT !.fired = @ + 1]
  /\ UNCHANGED <<value, props, probe, mounted, unmounted, query, isOpen, highlightedIndex,
                 recentSearches, debounceRef, everSelected, sel>>

\* ------------------------------------------------------------------------
\* handleSelect and handleRemoveTag

\* a toggle that appends whether or not the id is selected
toggledAppendOnly(selected, option) == Append(selected, option)

\* a toggle that puts a new candidate first
toggledPrepend(selected, option) ==
  IF hasId(selected, option.id)
  THEN withoutId(selected, option.id)
  ELSE <<option>> \o selected

\* the new selection of multi mode
toggled(selected, option) ==
  IF hasId(selected, option.id)
  THEN withoutId(selected, option.id)
  ELSE Append(selected, option)

\* pushRecent without its slice(0, 5)
pushRecentNoCap(prev, option) ==
  <<[option EXCEPT !.recent = TRUE]>> \o withoutId(prev, option.id)

\* the updater handed to setRecentSearches
pushRecent(prev, option) ==
  slice0(<<[option EXCEPT !.recent = TRUE]>> \o withoutId(prev, option.id),
         RecentCapacity)

\* handleSelect, whoever calls it (a click on a row, or Enter)
handleSelect(option) ==
  /\ IF multiple
     THEN /\ value' = toggled(selectedValues, option)
          /\ calls' = [NoCalls EXCEPT !.onChange = <<toggled(selectedValues, option)>>]
          /\ UNCHANGED <<query, isOpen>>
     ELSE /\ value' = <<option>>
          /\ calls' = [NoCalls EXCEPT !.onChange = << <<option>> >>]
          /\ query' = option.label
          /\ isOpen' = FALSE
  /\ recentSearches' = pushRecent(recentSearches, option)
  /\ everSelected' = everSelected \cup {option.id}
  /\ sel' = observed("handleSelect", option.id)

\* a click on row i of the open dropdown
ClickOption(i) ==
  /\ mounted /\ ~unmounted
  /\ isOpen
  /\ i \in 1..Len(filteredOptions)
  /\ handleSelect(filteredOptions[i])
  /\ UNCHANGED <<options, props, probe, mounted, unmounted, highlightedIndex, filteredOptions,
                 isLoading, debounceRef, timers, inflight, issued, full, burst>>

\* the new selection of handleRemoveTag
removed(selected, optionId) == withoutId(selected, optionId)

handleRemoveTag(optionId) ==
  /\ mounted /\ ~unmounted
  /\ IF multiple
     THEN /\ value' = removed(selectedValues, optionId)
          /\ calls' = [NoCalls EXCEPT !.onChange = <<removed(selectedValues, optionId)>>]
     ELSE /\ calls' = NoCalls
          /\ UNCHANGED value
  /\ sel' = observed("handleRemoveTag", optionId)
  /\ UNCHANGED <<options, props, probe, mounted, unmounted, query, isOpen, highlightedIndex,
                 filteredOptions, recentSearches, isLoading, debounceRef,
                 timers, inflight, issued, full, everSelected, burst>>

\* ------------------------------------------------------------------------
\* handleKeyDown, focus, and the click outside

\* an ArrowDown that stays on the last row
arrowDownNoWrap(prev, length) == IF prev < length - 1 THEN prev + 1 ELSE prev

\* the updater of ArrowDown
arrowDown(prev, length) == IF prev < length - 1 THEN prev + 1 ELSE 0

\* the updater of ArrowUp
arrowUp(prev, length) == IF prev > 0 THEN prev - 1 ELSE length - 1

\* a key that only moves the highlight or opens and closes the dropdown
KeyNav(key) ==
  /\ mounted /\ ~unmounted
  /\ key \in {"ArrowDown", "ArrowUp", "Escape", "Tab"}
  /\ IF ~isOpen
     THEN /\ isOpen' = (key = "ArrowDown")
          /\ UNCHANGED highlightedIndex
     ELSE CASE key = "ArrowDown" ->
                 /\ highlightedIndex' = arrowDown(highlightedIndex, Len(filteredOptions))
                 /\ UNCHANGED isOpen
            [] key = "ArrowUp" ->
                 /\ highlightedIndex' = arrowUp(highlightedIndex, Len(filteredOptions))
                 /\ UNCHANGED isOpen
            [] key = "Escape" ->
                 /\ isOpen' = FALSE
                 /\ highlightedIndex' = -1
            [] key = "Tab" ->
                 /\ isOpen' = FALSE
                 /\ UNCHANGED highlightedIndex
  /\ calls' = NoCalls
  /\ UNCHANGED <<options, value, props, probe, mounted, unmounted, query, filteredOptions,
                 recentSearches, isLoading, debounceRef, timers, inflight,
                 issued, full, everSelected, burst, sel>>

\* Enter: opens a closed dropdown, selects the highlighted row of an open one
KeyEnter ==
  /\ mounted /\ ~unmounted
  /\ IF ~isOpen
     THEN /\ isOpen' = TRUE
          /\ calls' = NoCalls
          /\ UNCHANGED <<value, query, recentSearches, everSelected, sel>>
     ELSE IF highlightedIndex >= 0 /\ highlightedIndex < Len(filteredOptions)
          THEN handleSelect(filteredOptions[highlightedIndex + 1])
          ELSE /\ calls' = NoCalls
               /\ UNCHANGED <<value, query, isOpen, recentSearches,
                              everSelected, sel>>
  /\ UNCHANGED <<options, props, probe, mounted, unmounted, highlightedIndex, filteredOptions,
                 isLoading, debounceRef, timers, inflight, issued, full, burst>>

\* onFocus of the input
Focus ==
  /\ mounted /\ ~unmounted
  /\ isOpen' = TRUE
  /\ calls' = NoCalls
  /\ UNCHANGED <<options, value, props, probe, mounted, unmounted, query, highlightedIndex,
                 filteredOptions, recentSearches, isLoading, debounceRef,
                 timers, inflight, issued, full, everSelected, burst, sel>>

\* handleClickOutside
ClickOutside ==
  /\ mounted /\ ~unmounted
  /\ isOpen' = FALSE
  /\ calls' = NoCalls
  /\ UNCHANGED <<options, value, props, probe, mounted, unmounted, query, highlightedIndex,
                 filteredOptions, recentSearches, isLoading, debounceRef,
                 timers, inflight, issued, full, everSelected, burst, sel>>

\* ------------------------------------------------------------------------
\* groupedOptions

\* the number a decimal digit stands for, -1 for any other character
digitValue(c) ==
  CASE c = "0" -> 0 [] c = "1" -> 1 [] c = "2" -> 2 [] c = "3" -> 3
    [] c = "4" -> 4 [] c = "5" -> 5 [] c = "6" -> 6 [] c = "7" -> 7
    [] c = "8" -> 8 [] c = "9" -> 9 [] OTHER -> -1

\* a < b for the numbers two canonical decimal strings stand for: the
\* shorter is the smaller, and of two of one length the one with the
\* smaller digit where they first differ
numericLess(a, b) ==
  \/ Len(a) < Len(b)
  \/ /\ Len(a) = Len(b)
     /\ \E i \in 1..Len(a) :
          /\ digitValue(a[i]) < digitValue(b[i])
          /\ \A k \in 1..(i - 1) : a[k] = b[k]

\* 2^32 - 1, the first integer that is not an array index
maxArrayLength == <<"4", "2", "9", "4", "9", "6", "7", "2", "9", "5">>

\* The property key is an array index: the canonical decimal string of an
\* integer from 0 to 2^32 - 2.  An object lists such keys first, in
\* ascending numeric order, whenever they were created.
isArrayIndex(key) ==
  /\ Len(key) >= 1
  /\ \A i \in 1..Len(key) : digitValue(key[i]) >= 0
  /\ key[1] = "0" => Len(key) = 1
  /\ numericLess(key, maxArrayLength)

\* groupBy(option) || 'Other', groupBy the function option => option[field]
categoryOf(option) == orOther(option[groupBy])

\* The properties of the object the reduce builds, in the order of their
\* creation.  The model's keys are never names Object.prototype defines.
reduceGroups(list) ==
  LET acc[i \in 0..Len(list)] ==
        IF i = 0 THEN <<>>
        ELSE LET prev == acc[i - 1]
                 category == categoryOf(list[i])
             IN IF \E k \in 1..Len(prev) : prev[k].category = category
                THEN [k \in 1..Len(prev) |->
                        IF prev[k].category = category
                        THEN [prev[k] EXCEPT !.options = Append(@, list[i])]
                        ELSE prev[k]]
                ELSE Append(prev, [category |-> category,
                                   options |-> <<list[i]>>])
  IN acc[Len(list)]

\* Object.entries(groups): the array-index keys in ascending numeric order,
\* then the other keys in the order of their creation
entries(groups) ==
  LET isIndex == [g \in elements(groups) |-> isArrayIndex(g.category)]
      isName == [g \in elements(groups) |-> ~isArrayIndex(g.category)]
      indices == filter(groups, isIndex)
      ascending == [p \in elements(indices) \X elements(indices) |->
                      IF numericLess(p[1].category, p[2].category) THEN -1
                      ELSE IF numericLess(p[2].category, p[1].category) THEN 1
                      ELSE 0]
  IN sort(indices, ascending) \o filter(groups, isName)

\* the groups the dropdown renders, a derived value of filteredOptions
groupedOptions ==
  IF groupBy = ""
  THEN << [category |-> <<>>, options |-> filteredOptions] >>
  ELSE entries(reduceGroups(filteredOptions))

\* ------------------------------------------------------------------------
\* The rows of the open dropdown

\* the rows in the order they are rendered: group after group, the
\* candidates of a group in the order of its array
displayedRows ==
  LET rows[k \in 0..Len(groupedOptions)] ==
        IF k = 0 THEN <<>> ELSE rows[k - 1] \o groupedOptions[k].options
  IN rows[Len(groupedOptions)]

\* filteredOptions.findIndex(o => o.id === option.id), counted from 0
globalIndex(option) == findIndexById(filteredOptions, option.id) - 1

\* the rows rendered as highlighted: globalIndex === highlightedIndex
highlightedRows ==
  {r \in 1..Len(displayedRows) :
     globalIndex(displayedRows[r]) = highlightedIndex}

\* ------------------------------------------------------------------------
\* The candidates, query texts and configurations the model is run on

o1 == Option("1", <<"A", "b">>, <<"a">>, 2, FALSE, TRUE)
o2 == Option("2", <<"b">>, <<"b">>, 3, TRUE, FALSE)
o3 == Option("3", <<"a", "a">>, <<"a">>, 0, FALSE, FALSE)

\* the ids a tag's remove button may carry
Ids == {"1", "2", "3"}

\* the texts a user may leave in the input
Queries == { <<>>, <<"a">>, <<"a", "b">>, <<"a", "b", "b">> }

\* the arrays a fulfilled onSearch promise may carry
FetchResults == { <<>>, <<o1, o2>>, <<o3, o1, o2>> }

Keys == {"ArrowDown", "ArrowUp", "Escape", "Tab"}

\* an asynchronous source, single selection, two results at most
AsyncScenario ==
  [options |-> <<o1, o2>>, multiple |-> FALSE, onSearch |-> TRUE,
   config |-> [DEFAULT_SEARCH_CONFIG EXCEPT !.minQueryLength = 2,
                                            !.maxResults = 2],
   showRecent |-> TRUE, showTrending |-> TRUE, groupBy |-> "",
   texts |-> { <<"a">>, <<"a", "b">>, <<"a", "b", "b">> }]

\* the static list, multiple selection, the default configuration
MultiScenario ==
  [options |-> <<o1, o2, o3>>, multiple |-> TRUE, onSearch |-> FALSE,
   config |-> DEFAULT_SEARCH_CONFIG,
   showRecent |-> TRUE, showTrending |-> TRUE, groupBy |-> "",
   texts |-> { <<>>, <<"a">> }]

\* the static list, single selection, exact matching, two results at most
ExactScenario ==
  [options |-> <<o1, o2, o3>>, multiple |-> FALSE, onSearch |-> FALSE,
   config |-> [DEFAULT_SEARCH_CONFIG EXCEPT !.algorithm = "exact",
                                            !.maxResults = 2],
   showRecent |-> FALSE, showTrending |-> TRUE, groupBy |-> "",
   texts |-> { <<>>, <<"a">>, <<"a", "b">> }]

\* the props of the mounted component, and what its user types
Scenarios == {AsyncScenario, MultiScenario, ExactScenario}

\* six candidates, all of them in the list shown for the empty query
p1 == Option("1", <<"a">>, <<"a">>, 6, FALSE, FALSE)
p2 == Option("2", <<"a">>, <<"a">>, 5, FALSE, FALSE)
p3 == Option("3", <<"b">>, <<"b">>, 4, FALSE, FALSE)
p4 == Option("4", <<"b">>, <<"b">>, 3, FALSE, FALSE)
p5 == Option("5", <<"A">>, <<"a">>, 2, TRUE, FALSE)
p6 == Option("6", <<"B">>, <<"b">>, 1, FALSE, TRUE)

\* a static list longer than recentSearches can get, single selection, a
\* user who picks with the mouse and the keyboard and types nothing
SixScenario ==
  [options |-> <<p1, p2, p3, p4, p5, p6>>, multiple |-> FALSE,
   onSearch |-> FALSE, config |-> DEFAULT_SEARCH_CONFIG,
   showRecent |-> TRUE, showTrending |-> TRUE, groupBy |-> "",
   texts |-> {}]

\* the props and the state of the component constructed for scenario s
Constructed(s) ==
  /\ options = s.options
  /\ multiple = s.multiple
  /\ onSearch = s.onSearch
  /\ config = s.config
  /\ showRecent = s.showRecent
  /\ showTrending = s.showTrending
  /\ groupBy = s.groupBy
  /\ texts = s.texts
  /\ value = <<>>
  /\ mounted = FALSE
  /\ unmounted = FALSE
  /\ query = <<>>
  /\ isOpen = FALSE
  /\ highlightedIndex = -1
  /\ filteredOptions = <<>>
  /\ recentSearches = <<>>
  /\ isLoading = FALSE
  /\ debounceRef = 0
  /\ timers = {}
  /\ inflight = EmptyBag
  /\ calls = NoCalls
  /\ issued = <<>>
  /\ full = <<>>
  /\ everSelected = {}
  /\ burst = [n |-> 0, last |-> <<>>, fired |-> 0]
  /\ sel = [op |-> "none", id |-> "", before |-> <<>>, rep |-> FALSE,
            orig |-> <<>>]

\* no call of the matcher on its own
NoProbe ==
  [fn |-> "", query |-> <<>>, text |-> <<>>, threshold |-> 0,
   caseSensitive |-> FALSE, result |-> FALSE]

\* the component as constructed with the props of scenario s
InitOf(s) == Constructed(s) /\ probe = NoProbe

Init == \E s \in Scenarios : InitOf(s)

Next ==
  \/ Mount
  \/ \E q \in Queries : handleInputChange(q)
  \/ \E t \in timers : TimerFire(t)
  \/ \E q \in Queries, r \in FetchResults : FetchResolve(q, r)
  \/ \E q \in Queries : FetchReject(q)
  \/ \E i \in 1..Len(filteredOptions) : ClickOption(i)
  \/ \E id \in Ids : handleRemoveTag(id)
  \/ \E key \in Keys : KeyNav(key)
  \/ KeyEnter
  \/ Focus
  \/ ClickOutside

Spec == Init /\ [][Next]_vars

\* the runs in which recentSearches can fill up
InitRecent == InitOf(SixScenario) \/ InitOf(AsyncScenario)

SpecRecent == InitRecent /\ [][Next]_vars

\* ------------------------------------------------------------------------
\* The search engine on its own: the runs of a user who only types, over
\* inputs that reach every slice, tie and key of filterOptions and
\* groupedOptions, and the teardown of the component

\* Option with a category
Categorized(option, category) == [option EXCEPT !.category = category]

e1 == Categorized(Option("1", <<"a", "b">>, <<"a">>, 1, TRUE, FALSE), <<"b">>)
e2 == Categorized(Option("2", <<"b">>, <<"a">>, 0, TRUE, TRUE), <<"2">>)
e3 == Categorized(Option("3", <<"A", "b">>, <<"b">>, 2, TRUE, FALSE), <<"1", "0">>)
e4 == Option("4", <<"a", "a">>, <<"a">>, 1, TRUE, TRUE)
e5 == Categorized(Option("5", <<"b", "a">>, <<"b">>, 2, FALSE, FALSE), <<"2">>)

\* a candidate that has no label
m1 == Option("6", undefined, <<"a">>, 5, FALSE, FALSE)

\* the id of a candidate that has none (undefined === undefined)
noId == "undefined"

\* a candidate that has no id
m2 == Option(noId, <<"a">>, <<"a">>, 4, FALSE, FALSE)

pool == <<e1, e2, e3, e4, e5>>

\* the five candidates in every order
Inputs == {[i \in 1..Len(pool) |-> pool[f[i]]] : f \in Permutations(1..Len(pool))}

\* the arrays a fulfilled onSearch promise may carry in these runs
SearchResults ==
  { <<e3, e2, e1, e4, e5>>, <<e2, e4, e1, e5, e3>>, <<m1, e1>>, <<m2, e3, e1>> }

\* every text is shorter than minQueryLength
FallbackScenario ==
  [options |-> pool, multiple |-> FALSE, onSearch |-> FALSE,
   config |-> [DEFAULT_SEARCH_CONFIG EXCEPT !.minQueryLength = 2,
                                            !.maxResults = 4],
   showRecent |-> TRUE, showTrending |-> TRUE, groupBy |-> "category",
   texts |-> { <<>>, <<"a">> }]

\* the default configuration: every text that is not empty is matched
RankScenario ==
  [options |-> pool, multiple |-> FALSE, onSearch |-> FALSE,
   config |-> DEFAULT_SEARCH_CONFIG,
   showRecent |-> TRUE, showTrending |-> FALSE, groupBy |-> "category",
   texts |-> { <<"a">>, <<"a", "b">> }]

\* minQueryLength 0, with and without onSearch
ZeroScenario ==
  [options |-> pool, multiple |-> FALSE, onSearch |-> FALSE,
   config |-> [DEFAULT_SEARCH_CONFIG EXCEPT !.minQueryLength = 0],
   showRecent |-> TRUE, showTrending |-> TRUE, groupBy |-> "",
   texts |-> { <<>>, <<"a">> }]

ZeroAsyncScenario == [ZeroScenario EXCEPT !.onSearch = TRUE]

\* a candidate without a label among the options, and among the results of
\* onSearch
MalformedScenario ==
  [options |-> <<e3, m1, e1>>, multiple |-> FALSE, onSearch |-> FALSE,
   config |-> DEFAULT_SEARCH_CONFIG,
   showRecent |-> TRUE, showTrending |-> TRUE, groupBy |-> "",
   texts |-> { <<"a">>, <<"a", "b">> }]

MalformedAsyncScenario == [MalformedScenario EXCEPT !.onSearch = TRUE]

InitSearch ==
  \/ \E arr \in Inputs : InitOf([FallbackScenario EXCEPT !.options = arr])
  \/ \E arr \in Inputs : InitOf([RankScenario EXCEPT !.options = arr])
  \/ InitOf(ZeroScenario)
  \/ InitOf(ZeroAsyncScenario)
  \/ InitOf(MalformedScenario)
  \/ InitOf(MalformedAsyncScenario)

NextSearch ==
  \/ Mount
  \/ \E q \in Queries : handleInputChange(q)
  \/ \E t \in timers : TimerFire(t)
  \/ \E q \in Queries, r \in SearchResults : FetchResolve(q, r)
  \/ \E q \in Queries : FetchReject(q)
  \/ Unmount

SpecSearch == InitSearch /\ [][NextSearch]_vars

\* ------------------------------------------------------------------------
\* The matcher on its own: fuzzyMatch and the predicate of every algorithm,
\* called once on a query, a text and a threshold

\* the longest text and the longest query of these calls
MaxTextLen == 3
MaxQueryLen == 2

\* the strings of at most n characters of chars
stringsUpTo(chars, n) == UNION {[1..k -> chars] : k \in 0..n}

MatchTexts == stringsUpTo({"a", "b", "A", " "}, MaxTextLen)
MatchQueries == stringsUpTo({"a", "b", " "}, MaxQueryLen)

\* thresholds, in hundredths
Thresholds == {0, 50, 75, 100}

\* the four algorithms, and a value that is none of them
Algorithms == {"exact", "fuzzy", "semantic", "hybrid", "phonetic"}

\* "macbok" and "MacBook Pro"
macbok == <<"m", "a", "c", "b", "o", "k">>
MacBookPro == <<"M", "a", "c", "B", "o", "o", "k", " ", "P", "r", "o">>

InitMatch ==
  /\ Constructed(MultiScenario)
  /\ \/ \E q \in MatchQueries, text \in MatchTexts, threshold \in Thresholds :
          probe = [NoProbe EXCEPT !.query = q, !.text = text,
                                  !.threshold = threshold]
     \/ probe = [NoProbe EXCEPT !.query = macbok, !.text = MacBookPro,
                                !.threshold = 50]

\* every variable of the component
component ==
  <<options, value, props, mounted, unmounted, query, isOpen,
    highlightedIndex, filteredOptions, recentSearches, isLoading,
    debounceRef, timers, inflight, calls, issued, full, everSelected,
    burst, sel>>

\* fuzzyMatch(query, text, threshold)
CallFuzzyMatch ==
  /\ probe.fn = ""
  /\ probe' = [probe EXCEPT
                 !.fn = "fuzzyMatch",
                 !.result = fuzzyMatch(probe.query, probe.text, probe.threshold)]
  /\ UNCHANGED component

\* the predicate of the filter under config.algorithm = algorithm
CallAlgorithm(algorithm, caseSensitive) ==
  /\ probe.fn = ""
  /\ probe' = [probe EXCEPT
                 !.fn = algorithm,
                 !.caseSensitive = caseSensitive,
                 !.result =
                   matchesText([DEFAULT_SEARCH_CONFIG EXCEPT
                                  !.algorithm = algorithm,
                                  !.caseSensitive = caseSensitive,
                                  !.fuzzyThreshold = probe.threshold],
                               probe.query, probe.text)]
  /\ UNCHANGED component

NextMatch ==
  \/ CallFuzzyMatch
  \/ \E algorithm \in Algorithms, caseSensitive \in BOOLEAN :
       CallAlgorithm(algorithm, caseSensitive)

SpecMatch == InitMatch /\ [][NextMatch]_vars

\* ------------------------------------------------------------------------
\* The grouped dropdown under the keyboard

\* two candidates of one category with a candidate of another between them
g1 == Categorized(Option("1", <<"a">>, <<"a">>, 3, FALSE, FALSE), <<"a">>)
g2 == Categorized(Option("2", <<"a", "b">>, <<"a">>, 2, FALSE, FALSE), <<"b">>)
g3 == Categorized(Option("3", <<"a", "a">>, <<"a">>, 1, FALSE, FALSE), <<"a">>)

\* a candidate with the id of g1
g4 == Categorized(Option("1", <<"a", "b">>, <<"b">>, 0, FALSE, FALSE), <<"b">>)

GroupedScenario ==
  [options |-> <<g1, g2, g3>>, multiple |-> FALSE, onSearch |-> FALSE,
   config |-> DEFAULT_SEARCH_CONFIG,
   showRecent |-> TRUE, showTrending |-> TRUE, groupBy |-> "category",
   texts |-> { <<>>, <<"a">>, <<"a", "b">> }]

\* the same with two candidates of one id among the options
DuplicateIdScenario == [GroupedScenario EXCEPT !.options = <<g1, g2, g4>>]

\* the same with categories that are array indices
IndexKeyScenario == [GroupedScenario EXCEPT !.options = pool]

InitGrouped ==
  \/ InitOf(GroupedScenario)
  \/ InitOf(DuplicateIdScenario)
  \/ InitOf(IndexKeyScenario)

NextGrouped ==
  \/ Mount
  \/ \E q \in Queries : handleInputChange(q)
  \/ \E t \in timers : TimerFire(t)
  \/ \E key \in Keys : KeyNav(key)
  \/ Focus

SpecGrouped == InitGrouped /\ [][NextGrouped]_vars

\* ------------------------------------------------------------------------
\* Helpers of the properties

noDupIds(arr) ==
  \A i \in 1..Len(arr), j \in 1..Len(arr) : i # j => arr[i].id # arr[j].id

idsOf(arr) == [i \in 1..Len(arr) |-> arr[i].id]

countId(arr, id) == Cardinality({i \in 1..Len(arr) : arr[i].id = id})

\* ------------------------------------------------------------------------
\* C1: a response of onSearch is applied to filteredOptions only when its
\* query is the query of the latest performSearch; a superseded search never
\* overwrites the displayed list.
C1_NoStaleResponse ==
  [][\A q \in Queries, r \in FetchResults :
       FetchResolve(q, r) => q = issued]_vars

\* C2: at most one debounce timer is pending; the query changes that arrive
\* while a timer is pending (a burst of N >= 1 changes) lead to exactly one
\* search, made when the timer of the last change fires and not before, with
\* the text of the last change.
C2_Debounce ==
  /\ Cardinality(timers) <= 1
  /\ \A t \in timers : t.q = burst.last /\ t.id = debounceRef
  /\ burst.n >= 1 => burst.fired + Cardinality(timers) = 1
  /\ burst.fired >= 1 => issued = burst.last

\* a burst of two changes has led to its one search
C2_Witness == burst.n >= 2 /\ burst.fired = 1 /\ timers = {}

\* what C3 asks of one step
C3_ShortQueryStep ==
  /\ \A k \in 1..Len(calls'.onSearch) :
       Len(calls'.onSearch[k]) >= config.minQueryLength
  /\ \A q \in Queries :
       (/\ Len(q) < config.minQueryLength
        /\ \/ q = <<>> /\ Mount
           \/ \E t \in timers : t.q = q /\ TimerFire(t))
       => /\ calls'.onSearch = <<>>
          /\ inflight' = inflight
          /\ isLoading' = isLoading
          /\ filteredOptions' = slice0(fallbackList(options), config.maxResults)

\* C3: a search for a query shorter than minQueryLength, the empty query of
\* the initial load included, does not call onSearch, and what it displays
\* is the recent/trending/popular fallback of the local options cut down to
\* maxResults; no step at all calls onSearch with such a query.
C3_ShortQueryNeverFetched == [][C3_ShortQueryStep]_vars

\* with onSearch given, the search for the one-character query "a" has been
\* made under minQueryLength = 2
C3_Witness ==
  /\ onSearch
  /\ issued = <<"a">>
  /\ Len(issued) < config.minQueryLength
  /\ burst.fired = 1
  /\ inflight = EmptyBag
  /\ filteredOptions # <<>>

\* C4: when the promise of onSearch is rejected the displayed list is empty,
\* the error is reported once, the loading flag is cleared, and the component
\* goes on: the input still takes a new text, the keys and the focus are
\* still handled.
C4_RejectRecovered ==
  calls.error > 0 =>
    /\ calls.error = 1
    /\ filteredOptions = <<>>
    /\ isLoading = FALSE
    /\ ENABLED Focus
    /\ \A key \in Keys : ENABLED KeyNav(key)
    /\ ENABLED KeyEnter
    /\ \A q \in texts \ {query} :
         (timers = {} \/ burst.n < MaxBurst) => ENABLED handleInputChange(q)

\* a rejection has just been handled with the dropdown open
C4_Witness == calls.error = 1 /\ isOpen /\ filteredOptions = <<>>

\* C5: highlightedIndex is -1 or an index of filteredOptions.
C5_HighlightInBounds ==
  \/ highlightedIndex = -1
  \/ 0 <= highlightedIndex /\ highlightedIndex < Len(filteredOptions)

\* C6: the displayed list has at most maxResults candidates, and they are
\* the first maxResults of the list the search ranked (all of it when it is
\* shorter), on the fallback, the local and the asynchronous path.
C6_Capped ==
  /\ Len(filteredOptions) <= config.maxResults
  /\ Len(filteredOptions) = Min(config.maxResults, Len(full))
  /\ \A i \in 1..Len(filteredOptions) : filteredOptions[i] = full[i]

\* an asynchronous search ranked three candidates and two are displayed
C6_Witness ==
  /\ onSearch
  /\ config.maxResults = 2
  /\ Len(full) = 3
  /\ Len(filteredOptions) = 2

\* C7: in multi mode a toggle emits the selection without the candidate when
\* its id was selected and the selection with it appended otherwise, a tag
\* removal emits the selection without the id, the others keep their order,
\* and no id is selected twice.
C7_MultiSelection ==
  multiple =>
    /\ noDupIds(value)
    /\ calls.onChange # <<>> => calls.onChange = <<value>>
    /\ sel.op = "handleSelect" =>
         IF hasId(sel.before, sel.id)
         THEN value = withoutId(sel.before, sel.id)
         ELSE /\ Len(value) = Len(sel.before) + 1
              /\ SubSeq(value, 1, Len(sel.before)) = sel.before
              /\ value[Len(value)].id = sel.id
    /\ sel.op = "handleRemoveTag" => value = withoutId(sel.before, sel.id)

\* a toggle has appended the candidate the ranking puts first behind two
\* candidates it ranks lower
C7_Witness ==
  /\ multiple
  /\ sel.op = "handleSelect"
  /\ ~hasId(sel.before, sel.id)
  /\ idsOf(value) = <<"3", "1", "2">>

\* what C8 asks of every state
C8_RecentInv ==
  /\ Len(recentSearches) = Min(RecentCapacity, Cardinality(everSelected))
  /\ Len(recentSearches) <= 5
  /\ noDupIds(recentSearches)
  /\ \A i \in 1..Len(recentSearches) :
       recentSearches[i].recent /\ recentSearches[i].id \in everSelected
  /\ (~multiple /\ value # <<>>) => recentSearches[1].id = value[1].id
  /\ (multiple /\ sel.op = "handleSelect") => recentSearches[1].id = sel.id

\* what C8 asks of every step
C8_RecentStep ==
  recentSearches' # recentSearches =>
    \E i \in 1..Len(filteredOptions) :
      LET option == filteredOptions[i]
          rest == withoutId(recentSearches, option.id)
      IN /\ isOpen
         /\ calls'.onChange # <<>>
         /\ everSelected' = everSelected \cup {option.id}
         /\ recentSearches'[1] = [option EXCEPT !.recent = TRUE]
         /\ Len(recentSearches') = Min(5, Len(rest) + 1)
         /\ Tail(recentSearches') = SubSeq(rest, 1, Len(recentSearches') - 1)

\* C8: recentSearches holds the candidates selected last, one per id and at
\* most 5 of them, the last selected first and each marked recent; a step
\* changes it only by a selection, which puts the selected candidate first
\* and keeps the others in their order.
C8_RecentList == [](C8_RecentInv) /\ [][C8_RecentStep]_vars

\* six ids have been selected and recentSearches holds five
C8_Witness == Cardinality(everSelected) = 6 /\ Len(recentSearches) = 5

\* what C9 asks of a step of handleRemoveTag
C9_RemoveStep ==
  \A id \in Ids :
    handleRemoveTag(id) =>
      IF multiple /\ hasId(value, id)
      THEN calls'.onChange = <<value'>>
      ELSE calls'.onChange = <<>> /\ value' = value

\* C9: onChange is called with the new selection by every toggle and every
\* removal of a selected id; a removal of an id that is not selected, and
\* any removal in single mode, leaves the selection alone and does not call
\* onChange.
C9_NoOpRemoveSilent ==
  [][C9_RemoveStep /\ (value' # value => calls'.onChange # <<>>)]_vars

\* C10 as stated: in multi mode the second of two toggles of the same
\* candidate in succession leaves the selection as it was before the first,
\* the same candidates in the same order, and one entry of that id in
\* recentSearches.
C10_ToggleTwiceSameOrder ==
  (multiple /\ sel.op = "handleSelect" /\ sel.rep) =>
    /\ value = sel.orig
    /\ countId(recentSearches, sel.id) = 1

\* C10 amended: the second toggle leaves the same candidates selected; their
\* order is the original one when the candidate was not selected at first or
\* was the last of the selection, and otherwise the candidate has moved to
\* the end behind the others in their original order; recentSearches has one
\* entry of that id.
C10_ToggleTwice ==
  (multiple /\ sel.op = "handleSelect" /\ sel.rep) =>
    /\ countId(recentSearches, sel.id) = 1
    /\ IF hasId(sel.orig, sel.id)
       THEN /\ idsOf(value) = Append(idsOf(withoutId(sel.orig, sel.id)), sel.id)
            /\ sel.orig[Len(sel.orig)].id = sel.id => idsOf(value) = idsOf(sel.orig)
       ELSE value = sel.orig

\* a candidate that was selected, and not last, has been toggled twice
C10_Witness ==
  /\ multiple
  /\ sel.op = "handleSelect"
  /\ sel.rep
  /\ hasId(sel.orig, sel.id)
  /\ sel.orig[Len(sel.orig)].id # sel.id
  /\ Len(sel.orig) = 3

\* ------------------------------------------------------------------------
\* The fallback list, stated without the code's filter, sort and findIndex

\* the elements of arr at the indices of I, in ascending order of index
subseqAt(arr, I) ==
  [k \in 1..Cardinality(I) |->
     arr[CHOOSE i \in I : Cardinality({j \in I : j < i}) = k - 1]]

\* the first n candidates of arr whose field flag is true, in the order of arr
firstFlagged(arr, flag, n) ==
  subseqAt(arr, {i \in 1..Len(arr) :
                   /\ arr[i][flag]
                   /\ Cardinality({j \in 1..(i - 1) : arr[j][flag]}) < n})

\* arr in descending popularity, candidates of one popularity in the order
\* of arr
descendingPopularity(arr) ==
  LET place(i) ==
        1 + Cardinality({j \in 1..Len(arr) :
                           \/ arr[j].popularity > arr[i].popularity
                           \/ /\ arr[j].popularity = arr[i].popularity
                              /\ j < i})
  IN [k \in 1..Len(arr) |-> arr[CHOOSE i \in 1..Len(arr) : place(i) = k]]

\* arr without the candidates whose id an earlier candidate has
firstOfEachId(arr) ==
  subseqAt(arr, {i \in 1..Len(arr) :
                   \A j \in 1..(i - 1) : arr[j].id # arr[i].id})

\* recent ++ trending ++ popular, deduplicated, truncated to maxResults
expectedFallback(arr) ==
  LET recent == IF showRecent THEN firstFlagged(arr, "recent", 3) ELSE <<>>
      trending == IF showTrending THEN firstFlagged(arr, "trending", 3)
                  ELSE <<>>
      popular == SubSeq(descendingPopularity(arr), 1, Min(4, Len(arr)))
      merged == firstOfEachId(recent \o trending \o popular)
  IN SubSeq(merged, 1, Min(config.maxResults, Len(merged)))

\* what C11 asks of one step: options is the array handed to filterOptions
C11_FallbackStep ==
  /\ (Mount /\ 0 < config.minQueryLength)
       => filteredOptions' = expectedFallback(options)
  /\ \A t \in timers :
       (TimerFire(t) /\ ~unmounted /\ Len(t.q) < config.minQueryLength)
         => filteredOptions' = expectedFallback(options)

\* C11: for a query shorter than minQueryLength the displayed list is the
\* first 3 recent candidates in input order (none when showRecent is off),
\* then the first 3 trending ones (none when showTrending is off), then the
\* first 4 of a stable descending-popularity sort, de-duplicated by id
\* keeping the first occurrence and truncated to maxResults.
C11_Fallback == [][C11_FallbackStep]_vars

\* a fallback search over more than 3 recent candidates, whose merged list is
\* longer than maxResults and had a duplicate removed
C11_Witness ==
  /\ mounted
  /\ issued = <<"a">>
  /\ Len(issued) < config.minQueryLength
  /\ Cardinality({i \in 1..Len(options) : options[i].recent}) > 3
  /\ Len(options) > 4
  /\ Len(full) > config.maxResults
  /\ filteredOptions = SubSeq(full, 1, config.maxResults)

\* ------------------------------------------------------------------------
\* The ranked list

\* the label starts with the query, whatever the case of the letters
startsWithQuery(option, searchQuery) ==
  startsWith(toLowerCase(option.label), toLowerCase(searchQuery))

\* the place of candidate x in arr, whose candidates differ from one another
placeIn(arr, x) == CHOOSE i \in 1..Len(arr) : arr[i] = x

\* out is input ranked for searchQuery
isRanked(searchQuery, input, out) ==
  /\ Len(out) = Len(input)
  /\ elements(out) = elements(input)
  /\ \A i \in 1..Len(out), j \in 1..Len(out) :
       i < j =>
         LET a == out[i]
             b == out[j]
             aExact == startsWithQuery(a, searchQuery)
             bExact == startsWithQuery(b, searchQuery)
         IN /\ aExact \/ ~bExact
            /\ aExact = bExact => a.popularity >= b.popularity
            /\ (aExact = bExact /\ a.popularity = b.popularity)
                 => placeIn(input, a) < placeIn(input, b)

\* what C12 asks of one step: full is the list the search ranked, before it
\* is cut down to maxResults
C12_RankedStep ==
  /\ \A t \in timers :
       (/\ TimerFire(t)
        /\ ~isAsync(t.q)
        /\ ~isFallback(t.q)
        /\ ~filterOptionsThrows(t.q, options))
         => isRanked(t.q, matched(t.q, options), full')
  /\ \A q \in Queries, r \in SearchResults :
       (/\ FetchResolve(q, r)
        /\ ~isFallback(q)
        /\ ~filterOptionsThrows(q, r))
         => isRanked(q, matched(q, r), full')

\* C12: the ranked list is a permutation of the matched candidates in which
\* every candidate whose label starts with the query (case-insensitively)
\* precedes every one whose label does not, each of the two classes is in
\* descending popularity, and candidates equal on both keys keep their
\* input order.
C12_Ranked == [][C12_RankedStep]_vars

\* onSearch returned e2, e4, e1, e5, e3 for "a": the three candidates whose
\* labels start with "a" were moved before the two others, each class was
\* put in descending popularity, and e4 stayed before e1, its equal
C12_Witness ==
  /\ onSearch
  /\ issued = <<"a">>
  /\ ~isFallback(issued)
  /\ idsOf(full) = <<"3", "4", "1", "5", "2">>

C14_OpenResetsHighlight ==
  [][/\ (~isOpen /\ isOpen') => highlightedIndex' = -1
     /\ KeyNav("Escape") => (~isOpen' /\ highlightedIndex' = -1)]_vars

\* ------------------------------------------------------------------------
\* C15: the teardown of the component cancels the pending debounce timer:
\* after it no timer fires, so no search is invoked and onSearch is not
\* called.
C15_TeardownCancelsTimer ==
  [][unmounted =>
       /\ \A t \in timers : ~TimerFire(t)
       /\ calls'.onSearch = <<>>]_vars

\* ------------------------------------------------------------------------
\* The groups, stated without the object the code collects them in

\* the key of a candidate's group: "Other" for an empty or absent value
groupKey(option) ==
  IF option[groupBy] = undefined \/ option[groupBy] = <<>>
  THEN <<"O", "t", "h", "e", "r">>
  ELSE option[groupBy]

\* the groups of list in the order their keys are first met, each with its
\* candidates in the order of list
groupsInOrder(list) ==
  LET firsts == subseqAt(list, {i \in 1..Len(list) :
                   \A j \in 1..(i - 1) : groupKey(list[j]) # groupKey(list[i])})
  IN [k \in 1..Len(firsts) |->
        [category |-> groupKey(firsts[k]),
         options |-> subseqAt(list, {i \in 1..Len(list) :
                                       groupKey(list[i]) = groupKey(firsts[k])})]]

\* C16: with a groupBy function, the displayed groups are in the order in
\* which their keys are first met in the displayed list, for every key
\* (keys that look like integers included); each candidate is in exactly
\* one group, the candidates of a group keep their order, and a candidate
\* with an empty or absent key is in the group "Other".
C16_GroupsInEncounterOrder ==
  groupBy # "" => groupedOptions = groupsInOrder(filteredOptions)

\* ------------------------------------------------------------------------
\* C17: no search modifies its input: after every step the caller's options
\* array holds the same candidates, unchanged, in the same order.
C17_InputNotMutated == [][options' = options]_vars

\* ------------------------------------------------------------------------
\* what C18 asks of one step that searches a query of minQueryLength or more
C18_LongQueryStep ==
  /\ (Mount /\ ~onSearch /\ 0 >= config.minQueryLength)
       => full' = rankedList(<<>>, options)
  /\ \A t \in timers :
       (/\ TimerFire(t)
        /\ ~onSearch
        /\ Len(t.q) >= config.minQueryLength
        /\ ~filterOptionsThrows(t.q, options))
         => full' = rankedList(t.q, options)
  /\ \A q \in Queries, r \in SearchResults :
       (/\ FetchResolve(q, r)
        /\ Len(q) >= config.minQueryLength
        /\ ~filterOptionsThrows(q, r))
         => full' = rankedList(q, r)

\* C18: the fallback is used if and only if the query is shorter than
\* minQueryLength: every query of that length or more, the empty query under
\* minQueryLength 0 included, with or without onSearch, gets the matched and
\* ranked list and never the recent/trending/popular fallback, and the
\* fallback is never applied to what onSearch returned.
C18_FallbackOnlyWhenShort == [][C18_LongQueryStep]_vars

\* ------------------------------------------------------------------------
\* C19: for a fixed options prop and configuration, two fallback
\* computations return the same list in the same order.  Stated of two
\* fallback searches in a row of a component without onSearch, whose
\* displayed list is the result of the latest search: the second leaves the
\* displayed list as the first made it.
C19_FallbackRepeats ==
  [][\A t \in timers :
       (/\ ~onSearch
        /\ mounted /\ ~unmounted
        /\ isFallback(issued)
        /\ TimerFire(t)
        /\ isFallback(t.q))
         => filteredOptions' = filteredOptions]_vars

\* ------------------------------------------------------------------------
\* the candidates of arr that have a label and an id
wellFormed(arr) ==
  subseqAt(arr, {i \in 1..Len(arr) :
                   arr[i].label # undefined /\ arr[i].id # noId})

\* what C20 asks of one step that searches: the list displayed is the list
\* the search makes of the well-formed candidates
C20_SkipStep ==
  /\ (Mount /\ ~isAsync(<<>>))
       => filteredOptions' = filterOptions(<<>>, wellFormed(options))
  /\ \A t \in timers :
       (TimerFire(t) /\ ~isAsync(t.q) /\ ~unmounted)
         => filteredOptions' = filterOptions(t.q, wellFormed(options))
  /\ \A q \in Queries, r \in SearchResults :
       (FetchResolve(q, r) /\ ~unmounted)
         => filteredOptions' = filterOptions(q, wellFormed(r))

\* C20: a candidate without a label or without an id is skipped, and the
\* well-formed candidates are matched, ranked and displayed as if it were not
\* there, on the local path and on the path of onSearch: the search neither
\* fails nor comes out empty because of it.
C20_MalformedSkipped == [][C20_SkipStep]_vars

\* ------------------------------------------------------------------------
\* The three conditions of a fuzzy match, stated without the code's loops

\* The words of text: its maximal runs of characters that are not spaces,
\* and the empty word when text is empty or begins or ends with a space.
wordsOf(text) ==
  {SubSeq(text, i, j) : <<i, j>> \in
     {p \in (1..Len(text)) \X (1..Len(text)) :
        /\ p[1] <= p[2]
        /\ \A k \in p[1]..p[2] : text[k] # " "
        /\ p[1] = 1 \/ text[p[1] - 1] = " "
        /\ p[2] = Len(text) \/ text[p[2] + 1] = " "}}
  \cup (IF text = <<>> \/ text[1] = " " \/ text[Len(text)] = " "
        THEN {<<>>} ELSE {})

\* The edit distance of a and b: the cheapest way to pair some characters of
\* a with characters of b in order, a paired character kept or substituted,
\* every other character of a deleted and of b inserted.
editDistance(a, b) ==
  LET pairings ==
        {M \in SUBSET ((1..Len(a)) \X (1..Len(b))) :
           \A p \in M, r \in M :
             p # r => (p[1] < r[1] /\ p[2] < r[2]) \/ (r[1] < p[1] /\ r[2] < p[2])}
      cost(M) == Len(a) + Len(b) - 2 * Cardinality(M)
                   + Cardinality({p \in M : a[p[1]] # b[p[2]]})
  IN CHOOSE d \in 0..(Len(a) + Len(b)) :
       /\ \E M \in pairings : cost(M) = d
       /\ \A M \in pairings : cost(M) >= d

\* 1 - distance(a, b) / length >= threshold, for length > 0
similarAtLeast(a, b, length, threshold) ==
  100 * length - 100 * editDistance(a, b) >= threshold * length

\* the three conditions, on the lower-case forms of query and text
expectedFuzzy(searchQuery, text, threshold) ==
  LET q == toLowerCase(searchQuery)
      words == wordsOf(toLowerCase(text))
  IN \/ \E i \in 1..(Len(text) + 1), j \in 0..Len(text) :
          SubSeq(toLowerCase(text), i, j) = q
     \/ \E w \in words :
          /\ Max(Len(q), Len(w)) > 0
          /\ similarAtLeast(q, w, Max(Len(q), Len(w)), threshold)
     \/ \E w \in words :
          /\ Len(w) >= Len(q)
          /\ Len(q) > 0
          /\ \E i \in 1..(Len(w) - Len(q) + 1) :
               similarAtLeast(q, SubSeq(w, i, i + Len(q) - 1), Len(q), threshold)

\* C21: fuzzyMatch(query, text, threshold) is true exactly when, case
\* ignored, query is a substring of text, or a whitespace-separated word of
\* text has similarity 1 - distance/max(lengths) >= threshold, or a word at
\* least as long as query has a window of query's length with similarity
\* >= threshold; an empty query matches every text; no division it gets to
\* has a zero divisor; "macbok" matches "MacBook Pro" at threshold 0.5.
C21_FuzzyMatch ==
  probe.fn = "fuzzyMatch" =>
    /\ Len(probe.text) <= MaxTextLen + 1
         => probe.result = expectedFuzzy(probe.query, probe.text, probe.threshold)
    /\ probe.query = <<>> => probe.result
    /\ 0 \notin fuzzyMatchDivisors(probe.query, probe.text)
    /\ (probe.query = macbok /\ probe.text = MacBookPro) => probe.result

\* fuzzyMatch has returned true for a query that is not a substring of the
\* text, whose first word is empty, at a threshold above 0
C21_Witness ==
  /\ probe.fn = "fuzzyMatch"
  /\ probe.result
  /\ probe.threshold > 0
  /\ probe.text = <<" ", "a", "b">>
  /\ probe.query = <<"b", "b">>

\* ------------------------------------------------------------------------
\* C22: isLoading is true exactly when a fetch that performSearch issued is
\* still unresolved: while two fetches overlap, the end of one does not
\* clear the flag, and once every fetch has settled the flag is false.
C22_LoadingIffInFlight ==
  isLoading <=> BagCardinality(inflight) > 0

\* ------------------------------------------------------------------------
\* C23: without onSearch, whenever no debounce timer is pending the
\* displayed list is filterOptions(query, options) for the text in the
\* input, however that text came to be there, a single-mode selection that
\* sets it to the label of the selected candidate included.
C23_ListMatchesQuery ==
  (mounted /\ ~onSearch /\ timers = {})
    => filteredOptions = filterOptions(query, options)

\* ------------------------------------------------------------------------
\* what C24 asks of ArrowDown over the grouped rows
C24_ArrowDownStep ==
  LET n == Len(displayedRows)
  IN \A r \in 1..n :
       (/\ groupBy # ""
        /\ isOpen
        /\ highlightedRows = {r}
        /\ KeyNav("ArrowDown"))
         => highlightedRows' = {IF r = n THEN 1 ELSE r + 1}

\* C24: with a groupBy function, at most one displayed row is highlighted
\* at a time (also when two displayed candidates have one id), and ArrowDown
\* moves the highlight from a row to the row displayed immediately below
\* it, from the last displayed row to the first, so that repeated ArrowDown
\* reaches every row.
C24_NavigationFollowsDisplay ==
  /\ [](groupBy # "" => Cardinality(highlightedRows) <= 1)
  /\ [][C24_ArrowDownStep]_vars

\* ------------------------------------------------------------------------
\* the answer of the strategy named algorithm on the probed inputs
probedBy(algorithm, caseSensitive) ==
  matchesText([DEFAULT_SEARCH_CONFIG EXCEPT
                 !.algorithm = algorithm,
                 !.caseSensitive = caseSensitive,
                 !.fuzzyThreshold = probe.threshold],
              probe.query, probe.text)

\* C25: for every query, text and threshold, 'hybrid' and 'fuzzy' include
\* the same candidates; what case-insensitive 'exact' includes is included
\* by 'hybrid', 'fuzzy' and 'semantic'; and an algorithm value that is none
\* of the four gives an answer, the one 'hybrid' gives.
C25_Strategies ==
  /\ probe.fn = "hybrid" =>
        probe.result = probedBy("fuzzy", probe.caseSensitive)
  /\ probe.fn = "fuzzy" =>
        probe.result = probedBy("hybrid", probe.caseSensitive)
  /\ probe.fn \in {"hybrid", "fuzzy", "semantic"} =>
        (probedBy("exact", FALSE) => probe.result)
  /\ (probe.fn = "exact" /\ ~probe.caseSensitive /\ probe.result) =>
        \A algorithm \in {"hybrid", "fuzzy", "semantic"} :
          probedBy(algorithm, probe.caseSensitive)
  /\ probe.fn \notin {"", "fuzzyMatch", "exact", "fuzzy", "semantic", "hybrid"} =>
        /\ probe.result \in BOOLEAN
        /\ probe.result = probedBy("hybrid", probe.caseSensitive)

\* an algorithm value outside the four has answered, on a text that only the
\* fuzzy test accepts
C25_Witness ==
  /\ probe.fn = "phonetic"
  /\ probe.result
  /\ probe.query = macbok /\ probe.text = MacBookPro
  /\ ~includes(toLowerCase(probe.text), toLowerCase(probe.query))

====
